---- MODULE Spec2Model ----
(***************************************************************************)
(* Model of EmailClient (src/email_client.py): the three read-side         *)
(* operations over an IMAP store (read_emails, filter_emails,              *)
(* get_unread_count), send_email over an SMTP relay, and the pure helpers  *)
(* _decode_header and _parse_email.                                        *)
(*                                                                         *)
(* Text is a sequence of one-character strings.  A Python value that may   *)
(* be None is a record [t |-> tag, v |-> payload].                         *)
(***************************************************************************)
EXTENDS Naturals, Integers, Sequences, FiniteSets, TLC

VARIABLES
    mailbox,       \* the folder snapshot held by the store, in arrival order
    op,            \* the operation in progress ("idle" before any call)
    args,          \* the arguments of the call in progress
    pc,            \* position of the call inside its try block
    conn,          \* the store connection opened by the call
    fault,         \* the cause of the step that failed, "none" otherwise
    message_list,  \* local message_list (tokens still to fetch, in fetch order)
    emails,        \* local emails (records decoded so far)
    idx,           \* position of the fetch loop in message_list
    count,         \* local count of get_unread_count
    outcome,       \* "none" while running, then "returned" or "raised"
    result,        \* the value returned to the caller
    raised,        \* the exception raised to the caller
    relayLog,      \* commands the call has issued to the relay, in order
    submitted,     \* envelopes the relay has accepted
    pbody,         \* a body handed to the preview expression
    ppreview       \* the preview computed for pbody

vars == <<mailbox, op, args, pc, conn, fault, message_list, emails, idx, count,
          outcome, result, raised, relayLog, submitted, pbody, ppreview>>

locals == <<message_list, emails, idx, count>>
exit == <<fault, outcome, result, raised>>
smtpVars == <<relayLog, submitted>>
previewVars == <<pbody, ppreview>>

-----------------------------------------------------------------------------
(* Bounds *)

MaxMsgs == 2        \* messages in the folder snapshot
MaxCount == 3       \* largest count handed to read_emails
MaxRuns == 3        \* runs of equal characters a preview body is built from

(* Program constants *)

PreviewLen == 150

-----------------------------------------------------------------------------
(* Python values *)

NoneVal == [t |-> "None", v |-> <<>>]
Str(s) == [t |-> "str", v |-> s]
Bytes(s) == [t |-> "bytes", v |-> s]
List(s) == [t |-> "list", v |-> s]
IntVal(n) == [t |-> "int", v |-> n]
Dict(r) == [t |-> "dict", v |-> r]

\* truth value of an Optional[str] argument: None and "" are both falsy
Truthy(x) == x.t # "None" /\ x.v # <<>>

MinOf(S) == CHOOSE x \in S : \A y \in S : x <= y
MaxOf(S) == CHOOSE x \in S : \A y \in S : x >= y

Reverse(s) == [i \in 1..Len(s) |-> s[Len(s) + 1 - i]]

-----------------------------------------------------------------------------
(* Text helpers (str methods used by the code) *)

Whitespace == {" ", "\n", "\t"}

\* s[:n]
Take(s, n) == SubSeq(s, 1, IF n < Len(s) THEN n ELSE Len(s))

\* s.replace(a, b) for one-character a and b
Replace(s, a, b) == [i \in 1..Len(s) |-> IF s[i] = a THEN b ELSE s[i]]

\* s.strip()
Strip(s) ==
    LET keep == {i \in 1..Len(s) : s[i] \notin Whitespace}
    IN  IF keep = {} THEN <<>> ELSE SubSeq(s, MinOf(keep), MaxOf(keep))

LowerOf(c) ==
    CASE c = "H" -> "h"
      [] c = "I" -> "i"
      [] c = "A" -> "a"
      [] OTHER -> c

\* s.lower()
Lower(s) == [i \in 1..Len(s) |-> LowerOf(s[i])]

\* needle in hay
Contains(hay, needle) ==
    \E i \in 0..Len(hay) :
        /\ i + Len(needle) <= Len(hay)
        /\ SubSeq(hay, i + 1, i + Len(needle)) = needle

Ellipsis == <<".", ".", ".">>

\* the preview expression of _parse_email
PreviewNoStrip(body) ==
    IF Len(body) > PreviewLen
    THEN Replace(Take(body, PreviewLen), "\n", " ") \o Ellipsis
    ELSE body

Preview(body) ==
    IF Len(body) > PreviewLen
    THEN Strip(Replace(Take(body, PreviewLen), "\n", " ")) \o Ellipsis
    ELSE body

-----------------------------------------------------------------------------
(* Preview bodies: built from runs of one character, then previewed *)

RunChars == {"a", " ", "\n", "\t"}
RunLens == {1, PreviewLen - 1, PreviewLen}

Run(c, n) == [i \in 1..n |-> c]

\* the number of maximal runs of equal characters in s
Runs(s) == Cardinality({i \in 1..Len(s) : i = 1 \/ s[i] # s[i - 1]})

InitPreview ==
    /\ pbody = <<>>
    /\ ppreview = NoneVal

AppendRun(c, n) ==
    /\ ppreview.t = "None"
    /\ Runs(pbody) < MaxRuns
    /\ pbody # <<>> => pbody[Len(pbody)] # c
    /\ pbody' = pbody \o Run(c, n)
    /\ UNCHANGED ppreview

MakePreview ==
    /\ ppreview.t = "None"
    /\ ppreview' = Str(Preview(pbody))
    /\ UNCHANGED pbody

-----------------------------------------------------------------------------
(* Raw messages held by the store *)

BadByte == "xFF"    \* a byte no codec decodes

\* a header as decode_header splits it: chunks of (content, encoding)
Chunk(content, isbytes, encoding) ==
    [content |-> content, isbytes |-> isbytes, encoding |-> encoding]

SubjPlain == <<Chunk(<<"H", "i">>, FALSE, "None")>>
SubjEncoded == <<Chunk(<<"h", BadByte>>, TRUE, "utf-8"),
                 Chunk(<<"I">>, TRUE, "None")>>
SubjUnknown == <<Chunk(<<"h", "i">>, TRUE, "x-unknown")>>
SubjAbsent == <<Chunk(<<>>, FALSE, "None")>>

RawSubjects == {SubjPlain, SubjEncoded, SubjUnknown, SubjAbsent}

KnownCodecs == {"utf-8", "iso-8859-1"}

FromA == <<Chunk(<<"a">>, FALSE, "None")>>
FromB == <<Chunk(<<"b">>, FALSE, "None")>>

\* the parts of a message in walk() order; a non-multipart message is its
\* own single part
Part(ctype, payload) == [ctype |-> ctype, payload |-> payload]

PartsSingle == <<Part("text/plain", <<"o", BadByte, "k">>)>>
PartsMulti == <<Part("multipart/alternative", <<>>),
                Part("text/html", <<"<", "p", ">">>),
                Part("text/plain", <<"f", "\n", "1">>),
                Part("text/plain", <<"f", "2">>)>>
PartsHtmlOnly == <<Part("multipart/mixed", <<>>),
                   Part("text/html", <<"<", "p", ">">>)>>

\* body shape is tied to the sender and the flag to keep the snapshot small
PartsOf(from, seen) ==
    IF from = FromA THEN PartsSingle
    ELSE IF seen THEN PartsMulti ELSE PartsHtmlOnly

RawMessages ==
    {[subject |-> s, from |-> f, date |-> <<"d">>, seen |-> u,
      parts |-> PartsOf(f, u)] :
        s \in RawSubjects, f \in {FromA, FromB}, u \in BOOLEAN}

Mailboxes == UNION {[1..n -> RawMessages] : n \in 0..MaxMsgs}

Folders == {"INBOX"}            \* the folders that exist on the store
FolderArgs == {"INBOX", "Archive"}

-----------------------------------------------------------------------------
(* _decode_header and _parse_email *)

\* bytes.decode(encoding, errors='ignore'): undecodable bytes are dropped
DecodeIgnore(content) == SelectSeq(content, LAMBDA c : c # BadByte)

\* content.decode(encoding or 'utf-8', errors='ignore') raises LookupError
\* for a codec Python does not know
ChunkRaises(ch) ==
    /\ ch.isbytes
    /\ ch.encoding # "None"
    /\ ch.encoding \notin KnownCodecs

ChunkText(ch) == IF ch.isbytes THEN DecodeIgnore(ch.content) ELSE ch.content

RECURSIVE ConcatChunks(_)
ConcatChunks(chunks) ==
    IF chunks = <<>> THEN <<>>
    ELSE ChunkText(Head(chunks)) \o ConcatChunks(Tail(chunks))

\* [ok |-> FALSE] stands for the LookupError leaving _decode_header
_decode_header(header) ==
    IF \E i \in 1..Len(header) : ChunkRaises(header[i])
    THEN [ok |-> FALSE, v |-> <<>>]
    ELSE [ok |-> TRUE, v |-> ConcatChunks(header)]

is_multipart(m) ==
    m.parts[1].ctype \in {"multipart/alternative", "multipart/mixed"}

\* body extraction of _parse_email.  get_payload(decode=True) yields bytes
\* for every leaf part of a parsed message and decode(errors='ignore') does
\* not raise, so the two except clauses have no trigger.
ParseBody(m) ==
    IF is_multipart(m)
    THEN LET plain == {i \in 1..Len(m.parts) : m.parts[i].ctype = "text/plain"}
         IN  IF plain = {} THEN <<>>
             ELSE DecodeIgnore(m.parts[MinOf(plain)].payload)
    ELSE DecodeIgnore(m.parts[1].payload)

\* [ok |-> FALSE] stands for an exception leaving _parse_email
_parse_email(m) ==
    LET subject == _decode_header(m.subject)
        from_ == _decode_header(m.from)
        body == ParseBody(m)
    IN  IF ~subject.ok \/ ~from_.ok
        THEN [ok |-> FALSE, v |-> <<>>]
        ELSE [ok |-> TRUE,
              v |-> [subject |-> subject.v, from |-> from_.v, date |-> m.date,
                     body |-> body, preview |-> Preview(body)]]

-----------------------------------------------------------------------------
(* The store: search and the shape of its answer *)

Term(key, arg) == [key |-> key, arg |-> arg]

\* the header text the store matches FROM against
HeaderText(header) == ConcatChunks(header)

TermMatches(m, term) ==
    CASE term.key = "ALL" -> TRUE
      [] term.key = "UNSEEN" -> ~m.seen
      [] term.key = "SEEN" -> m.seen
      [] term.key = "FROM" ->
            Contains(Lower(HeaderText(m.from)), Lower(term.arg))

\* sequence numbers of the messages matching every term, ascending
ServerSearch(criteria, mb) ==
    SelectSeq([i \in 1..Len(mb) |-> i],
              LAMBDA n : \A k \in 1..Len(criteria) :
                            TermMatches(mb[n], criteria[k]))

\* a sequence number as the store prints it
Token(n) == <<ToString(n)>>

RECURSIVE JoinTokens(_)
JoinTokens(ns) ==
    IF ns = <<>> THEN <<>>
    ELSE IF Len(ns) = 1 THEN Token(ns[1])
    ELSE Token(ns[1]) \o <<" ">> \o JoinTokens(Tail(ns))

\* message_numbers[0]: the numbers on one line, or None when the store sent
\* no SEARCH line at all, which it may do when nothing matches
SearchAnswers(criteria, mb) ==
    LET hits == ServerSearch(criteria, mb)
    IN  IF hits = <<>> THEN {Bytes(<<>>), NoneVal}
        ELSE {Bytes(JoinTokens(hits))}

\* bytes.split()
RECURSIVE SplitAcc(_, _)
SplitAcc(s, cur) ==
    LET flush == IF cur = <<>> THEN <<>> ELSE <<cur>>
    IN  IF s = <<>> THEN flush
        ELSE IF Head(s) \in Whitespace
             THEN flush \o SplitAcc(Tail(s), <<>>)
             ELSE SplitAcc(Tail(s), Append(cur, Head(s)))

Split(s) == SplitAcc(s, <<>>)

\* the message a token names in the selected folder
TokenNum(tok) == CHOOSE n \in 1..Len(mailbox) : Token(n) = tok

\* s[-k:]
LastSlice(s, k) ==
    IF k = 0 THEN s
    ELSE SubSeq(s, (IF Len(s) > k THEN Len(s) - k ELSE 0) + 1, Len(s))

\* recent_messages of read_emails
RecentMessages(ml, cnt) == IF Len(ml) >= cnt THEN LastSlice(ml, cnt) ELSE ml

\* search_criteria of filter_emails
SearchCriteria(sender, is_unread) ==
    LET crit == (IF is_unread # "None"
                 THEN <<Term(IF is_unread = "True" THEN "UNSEEN" ELSE "SEEN",
                             <<>>)>>
                 ELSE <<>>)
                \o (IF Truthy(sender) THEN <<Term("FROM", sender.v)>>
                    ELSE <<>>)
    IN  IF crit # <<>> THEN crit ELSE <<Term("ALL", <<>>)>>

\* the subject test of filter_emails: TRUE when the record is kept
SubjectKeepsCaseSensitive(subject, parsed) ==
    ~(Truthy(subject) /\ ~Contains(parsed.subject, subject.v))

SubjectKeeps(subject, parsed) ==
    ~(Truthy(subject) /\ ~Contains(Lower(parsed.subject), Lower(subject.v)))

WithId(parsed, num) ==
    [subject |-> parsed.subject, from |-> parsed.from, date |-> parsed.date,
     body |-> parsed.body, preview |-> parsed.preview, id |-> num]

-----------------------------------------------------------------------------
(* The except clause of each operation *)

FailedTo(opname) ==
    CASE opname = "read_emails" -> "Failed to read emails"
      [] opname = "filter_emails" -> "Failed to filter emails"
      [] opname = "send_email" -> "Failed to send email"
      [] opname = "get_unread_count" -> "Failed to get unread count"

\* the handler re-raising the exception it caught
ExceptHandlerKeepsKind(opname, cause, partial) ==
    [outcome |-> "raised",
     result |-> NoneVal,
     raised |-> [type |-> cause, prefix |-> FailedTo(opname),
                 cause |-> cause]]

\* the handler returning what the loop had collected
ExceptHandlerReturnsPartial(opname, cause, partial) ==
    [outcome |-> "returned",
     result |-> List(partial),
     raised |-> [type |-> "None", prefix |-> "", cause |-> ""]]

\* the handler swallowing the exception
ExceptHandlerSwallows(opname, cause, partial) ==
    [outcome |-> "returned",
     result |-> NoneVal,
     raised |-> [type |-> "None", prefix |-> "", cause |-> ""]]

\* raise Exception(f"Failed to ...: {str(e)}")
ExceptHandler(opname, cause, partial) ==
    [outcome |-> "raised",
     result |-> NoneVal,
     raised |-> [type |-> "Exception", prefix |-> FailedTo(opname),
                 cause |-> cause]]

Raise(cause) ==
    LET h == ExceptHandler(op, cause, emails)
    IN  /\ fault' = cause
        /\ outcome' = h.outcome
        /\ result' = h.result
        /\ raised' = h.raised
        /\ pc' = "done"

NoRaised == [type |-> "None", prefix |-> "", cause |-> ""]

-----------------------------------------------------------------------------
(* Calls *)

SenderArgs == {NoneVal, Str(<<>>), Str(<<"A">>)}
SubjectArgs == {NoneVal, Str(<<>>), Str(<<"h", "I">>)}
UnreadArgs == {"None", "True", "False"}

CallRead(cnt, folder) ==
    /\ pc = "idle"
    /\ op' = "read_emails"
    /\ args' = [count |-> cnt, folder |-> folder]
    /\ pc' = "connect"
    /\ UNCHANGED <<mailbox, conn, locals, exit, smtpVars, previewVars>>

CallFilter(sender, subject, is_unread, folder) ==
    /\ pc = "idle"
    /\ op' = "filter_emails"
    /\ args' = [sender |-> sender, subject |-> subject,
                is_unread |-> is_unread, folder |-> folder]
    /\ pc' = "connect"
    /\ UNCHANGED <<mailbox, conn, locals, exit, smtpVars, previewVars>>

CallUnread(folder) ==
    /\ pc = "idle"
    /\ op' = "get_unread_count"
    /\ args' = [folder |-> folder]
    /\ pc' = "connect"
    /\ UNCHANGED <<mailbox, conn, locals, exit, smtpVars, previewVars>>

-----------------------------------------------------------------------------
(* Connection acquisition: _connect_imap, then select *)

\* imaplib.IMAP4_SSL(host, port)
ConnectImap ==
    /\ pc = "connect"
    /\ \/ /\ conn' = "NONAUTH"
          /\ pc' = "login"
          /\ UNCHANGED exit
       \/ /\ Raise("unreachable")
          /\ UNCHANGED conn
    /\ UNCHANGED <<mailbox, op, args, locals, smtpVars, previewVars>>

\* mail.login(user, pass)
Login ==
    /\ pc = "login"
    /\ \/ /\ conn' = "AUTH"
          /\ pc' = "select"
          /\ UNCHANGED exit
       \/ /\ Raise("credential_rejected")
          /\ UNCHANGED conn
    /\ UNCHANGED <<mailbox, op, args, locals, smtpVars, previewVars>>

\* mail.select(folder): the store answers NO for a folder it does not have;
\* select hands that answer back without raising and the code drops it
Select ==
    /\ pc = "select"
    /\ \/ /\ conn' = IF args.folder \in Folders THEN "SELECTED" ELSE "AUTH"
          /\ pc' = "search"
          /\ UNCHANGED exit
       \/ /\ Raise("connection_lost")
          /\ UNCHANGED conn
    /\ UNCHANGED <<mailbox, op, args, locals, smtpVars, previewVars>>

-----------------------------------------------------------------------------
(* Search.  imaplib refuses SEARCH unless a folder is selected. *)

\* read_emails, lines 99-106
SearchRead ==
    /\ pc = "search" /\ op = "read_emails"
    /\ \/ /\ conn # "SELECTED"
          /\ Raise("illegal_state")
          /\ UNCHANGED locals
       \/ /\ conn = "SELECTED"
          /\ Raise("search_failed")
          /\ UNCHANGED locals
       \/ /\ conn = "SELECTED"
          /\ \E answer \in SearchAnswers(<<Term("ALL", <<>>)>>, mailbox) :
                IF answer.t = "None"
                THEN Raise("AttributeError") /\ UNCHANGED locals
                ELSE LET recent == RecentMessages(Split(answer.v), args.count)
                     IN  /\ message_list' = Reverse(recent)
                         /\ emails' = <<>>
                         /\ idx' = 1
                         /\ pc' = IF recent = <<>> THEN "close" ELSE "fetch"
                         /\ UNCHANGED <<count, exit>>
    /\ UNCHANGED <<mailbox, op, args, conn, smtpVars, previewVars>>

\* filter_emails, lines 146-158
SearchFilter ==
    /\ pc = "search" /\ op = "filter_emails"
    /\ \/ /\ conn # "SELECTED"
          /\ Raise("illegal_state")
          /\ UNCHANGED locals
       \/ /\ conn = "SELECTED"
          /\ Raise("search_failed")
          /\ UNCHANGED locals
       \/ /\ conn = "SELECTED"
          /\ \E answer \in SearchAnswers(
                    SearchCriteria(args.sender, args.is_unread), mailbox) :
                IF answer.t = "None"
                THEN Raise("AttributeError") /\ UNCHANGED locals
                ELSE /\ message_list' = Split(answer.v)
                     /\ emails' = <<>>
                     /\ idx' = 1
                     /\ pc' = IF Split(answer.v) = <<>> THEN "close"
                              ELSE "fetch"
                     /\ UNCHANGED <<count, exit>>
    /\ UNCHANGED <<mailbox, op, args, conn, smtpVars, previewVars>>

\* get_unread_count, lines 248-249
SearchUnread ==
    /\ pc = "search" /\ op = "get_unread_count"
    /\ \/ /\ conn # "SELECTED"
          /\ Raise("illegal_state")
          /\ UNCHANGED locals
       \/ /\ conn = "SELECTED"
          /\ Raise("search_failed")
          /\ UNCHANGED locals
       \/ /\ conn = "SELECTED"
          /\ \E answer \in SearchAnswers(<<Term("UNSEEN", <<>>)>>, mailbox) :
                /\ count' = IF answer.t # "None" /\ answer.v # <<>>
                            THEN Len(Split(answer.v)) ELSE 0
                /\ pc' = "close"
                /\ UNCHANGED <<message_list, emails, idx, exit>>
    /\ UNCHANGED <<mailbox, op, args, conn, smtpVars, previewVars>>

-----------------------------------------------------------------------------
(* One turn of the fetch loop of read_emails and filter_emails *)

Fetch ==
    /\ pc = "fetch"
    /\ idx <= Len(message_list)
    /\ LET num == message_list[idx]
           parsed == _parse_email(mailbox[TokenNum(num)])
           keep == op = "read_emails" \/ SubjectKeeps(args.subject, parsed.v)
       IN  \/ /\ Raise("fetch_failed")
              /\ UNCHANGED locals
           \/ /\ ~parsed.ok
              /\ Raise("LookupError")
              /\ UNCHANGED locals
           \/ /\ parsed.ok
              /\ emails' = IF keep THEN Append(emails, WithId(parsed.v, num))
                           ELSE emails
              /\ idx' = idx + 1
              /\ pc' = IF idx = Len(message_list) THEN "close" ELSE "fetch"
              /\ UNCHANGED <<message_list, count, exit>>
    /\ UNCHANGED <<mailbox, op, args, conn, smtpVars, previewVars>>

\* emails.reverse() of filter_emails, then mail.close(); imaplib leaves the
\* session authenticated whether or not CLOSE succeeds
Close ==
    /\ pc = "close"
    /\ emails' = IF op = "filter_emails" THEN Reverse(emails) ELSE emails
    /\ conn' = "AUTH"
    /\ \/ /\ pc' = "logout"
          /\ UNCHANGED exit
       \/ Raise("close_failed")
    /\ UNCHANGED <<mailbox, op, args, message_list, idx, count, smtpVars,
                   previewVars>>

\* mail.logout(), then return
Logout ==
    /\ pc = "logout"
    /\ \/ /\ conn' = "LOGOUT"
          /\ outcome' = "returned"
          /\ result' = IF op = "get_unread_count" THEN IntVal(count)
                       ELSE List(emails)
          /\ pc' = "done"
          /\ UNCHANGED <<fault, raised>>
       \/ /\ Raise("logout_failed")
          /\ UNCHANGED conn
    /\ UNCHANGED <<mailbox, op, args, locals, smtpVars, previewVars>>

-----------------------------------------------------------------------------
(* send_email *)

EmailUser == <<"m", "e">>
ToArgs == {<<"t">>}
CcArgs == {NoneVal, Str(<<>>), Str(<<"c">>)}

\* lines 204-212
BuildMsg(a) ==
    [From |-> EmailUser, To |-> a.to, Subject |-> a.subject,
     Cc |-> IF Truthy(a.cc) THEN a.cc ELSE NoneVal, body |-> a.body]

\* send_message(msg) with no to_addrs: the envelope is read off the To and
\* Cc headers of msg
EnvelopeToOnly(msg) == <<msg.To>>

Envelope(msg) ==
    <<msg.To>> \o (IF msg.Cc.t # "None" THEN <<msg.Cc.v>> ELSE <<>>)

Cmd(name, ok) == [cmd |-> name, ok |-> ok]

SuccessRecord(a) ==
    Dict([success |-> TRUE,
          message |-> <<"Email sent successfully to ", a.to>>,
          timestamp |-> "now"])

CallSend(to, cc) ==
    /\ pc = "idle"
    /\ op' = "send_email"
    /\ args' = [to |-> to, subject |-> <<"H", "i">>, body |-> <<"o", "k">>,
                cc |-> cc]
    /\ pc' = "smtp_connect"
    /\ UNCHANGED <<mailbox, conn, locals, exit, smtpVars, previewVars>>

\* smtplib.SMTP(host, port)
SmtpConnect ==
    /\ pc = "smtp_connect"
    /\ \/ /\ relayLog' = Append(relayLog, Cmd("CONNECT", TRUE))
          /\ pc' = "starttls"
          /\ UNCHANGED exit
       \/ /\ relayLog' = Append(relayLog, Cmd("CONNECT", FALSE))
          /\ Raise("unreachable")
    /\ UNCHANGED <<mailbox, op, args, conn, locals, submitted, previewVars>>

\* server.starttls(); on failure the with block sends QUIT on the way out
StartTls ==
    /\ pc = "starttls"
    /\ \/ /\ relayLog' = Append(relayLog, Cmd("STARTTLS", TRUE))
          /\ pc' = "smtp_login"
          /\ UNCHANGED exit
       \/ /\ relayLog' = relayLog \o <<Cmd("STARTTLS", FALSE), Cmd("QUIT", TRUE)>>
          /\ Raise("starttls_failed")
    /\ UNCHANGED <<mailbox, op, args, conn, locals, submitted, previewVars>>

\* server.login(user, pass)
SmtpLogin ==
    /\ pc = "smtp_login"
    /\ \/ /\ relayLog' = Append(relayLog, Cmd("AUTH", TRUE))
          /\ pc' = "smtp_send"
          /\ UNCHANGED exit
       \/ /\ relayLog' = relayLog \o <<Cmd("AUTH", FALSE), Cmd("QUIT", TRUE)>>
          /\ Raise("credential_rejected")
    /\ UNCHANGED <<mailbox, op, args, conn, locals, submitted, previewVars>>

\* server.send_message(msg)
SendMessage ==
    /\ pc = "smtp_send"
    /\ \/ /\ relayLog' = Append(relayLog, Cmd("MAIL", TRUE))
          /\ submitted' = Append(submitted,
                                 [from |-> BuildMsg(args).From,
                                  rcpt |-> Envelope(BuildMsg(args)),
                                  msg |-> BuildMsg(args)])
          /\ pc' = "smtp_quit"
          /\ UNCHANGED exit
       \/ /\ relayLog' = relayLog \o <<Cmd("MAIL", FALSE), Cmd("QUIT", TRUE)>>
          /\ Raise("submission_refused")
          /\ UNCHANGED submitted
    /\ UNCHANGED <<mailbox, op, args, conn, locals, previewVars>>

\* leaving the with block: QUIT, which raises unless the relay answers 221;
\* then the success record is returned
SmtpQuit ==
    /\ pc = "smtp_quit"
    /\ \/ /\ relayLog' = Append(relayLog, Cmd("QUIT", TRUE))
          /\ outcome' = "returned"
          /\ result' = SuccessRecord(args)
          /\ pc' = "done"
          /\ UNCHANGED <<fault, raised>>
       \/ /\ relayLog' = Append(relayLog, Cmd("QUIT", FALSE))
          /\ Raise("quit_failed")
    /\ UNCHANGED <<mailbox, op, args, conn, locals, submitted, previewVars>>

-----------------------------------------------------------------------------
(* Specifications *)

InitCall ==
    /\ op = "idle"
    /\ args = [folder |-> "INBOX"]
    /\ pc = "idle"
    /\ conn = "NONE"
    /\ fault = "none"
    /\ message_list = <<>>
    /\ emails = <<>>
    /\ idx = 1
    /\ count = 0
    /\ outcome = "none"
    /\ result = NoneVal
    /\ raised = NoRaised
    /\ relayLog = <<>>
    /\ submitted = <<>>

Init ==
    /\ mailbox \in Mailboxes
    /\ InitCall
    /\ InitPreview

Next ==
    \/ \E cnt \in 0..MaxCount, f \in FolderArgs : CallRead(cnt, f)
    \/ \E s \in SenderArgs, j \in SubjectArgs, u \in UnreadArgs,
          f \in FolderArgs : CallFilter(s, j, u, f)
    \/ \E f \in FolderArgs : CallUnread(f)
    \/ \E to \in ToArgs, cc \in CcArgs : CallSend(to, cc)
    \/ ConnectImap
    \/ Login
    \/ Select
    \/ SearchRead
    \/ SearchFilter
    \/ SearchUnread
    \/ Fetch
    \/ Close
    \/ Logout
    \/ SmtpConnect
    \/ StartTls
    \/ SmtpLogin
    \/ SendMessage
    \/ SmtpQuit

Spec == Init /\ [][Next]_vars

\* the preview expression applied to bodies around the 150-character limit
InitP ==
    /\ mailbox = <<>>
    /\ InitCall
    /\ InitPreview

NextP ==
    \/ \E c \in RunChars, n \in RunLens :
          AppendRun(c, n) /\ UNCHANGED <<mailbox, op, args, pc, conn, locals,
                                         exit, smtpVars>>
    \/ MakePreview /\ UNCHANGED <<mailbox, op, args, pc, conn, locals, exit,
                                  smtpVars>>

SpecPreview == InitP /\ [][NextP]_vars

-----------------------------------------------------------------------------
(* Properties *)

ReadOps == {"read_emails", "filter_emails", "get_unread_count"}

\* failures of a store step, as opposed to failures of the client's own code
StoreFaults == {"unreachable", "credential_rejected", "connection_lost",
                "illegal_state", "search_failed", "fetch_failed",
                "close_failed", "logout_failed"}

Smaller(a, b) == IF a < b THEN a ELSE b

\* the sequence number a record's id names
IdNum(id) == CHOOSE n \in 1..(MaxMsgs + 1) : <<ToString(n)>> = id

Unseen == {n \in 1..Len(mailbox) : ~mailbox[n].seen}

\* C1: read_emails(count, folder) returns exactly min(count, M) records, the
\* i-th of them being the i-th most recently arrived message, so that
\* read_emails(0, folder) returns no record.
C1_ReadReturnsMinCount ==
    (op = "read_emails" /\ outcome = "returned") =>
        /\ result.t = "list"
        /\ Len(result.v) = Smaller(args.count, Len(mailbox))
        /\ \A i \in 1..Len(result.v) :
              result.v[i].id = <<ToString(Len(mailbox) + 1 - i)>>

\* C2: when a read-side call has returned or raised, the store connection it
\* opened is closed and logged out (or was never opened).
C2_ConnectionClosedOnExit ==
    (op \in ReadOps /\ outcome # "none") => conn \in {"NONE", "LOGOUT"}

\* C3 as claimed: the preview of a body longer than 150 characters is its
\* first 150 characters with newlines replaced by spaces, followed by "...",
\* with nothing trimmed; a shorter body is its own preview.
C3_PreviewAsClaimed ==
    ppreview.t = "str" =>
        ppreview.v =
            IF Len(pbody) <= 150 THEN pbody
            ELSE [i \in 1..150 |-> IF pbody[i] = "\n" THEN " " ELSE pbody[i]]
                 \o <<".", ".", ".">>

\* C3 as amended: the preview of a body longer than 150 characters is its
\* first 150 characters with newlines replaced by spaces and with leading and
\* trailing whitespace removed, followed by "..."; a shorter body is its own
\* preview.
C3_PreviewStripped ==
    ppreview.t = "str" =>
        IF Len(pbody) <= 150 THEN ppreview.v = pbody
        ELSE LET c == [i \in 1..150 |->
                          IF pbody[i] = "\n" THEN " " ELSE pbody[i]]
                 n == Len(ppreview.v) - 3
                 core == SubSeq(ppreview.v, 1, n)
             IN  /\ n >= 0
                 /\ SubSeq(ppreview.v, n + 1, n + 3) = <<".", ".", ".">>
                 /\ n > 0 => /\ core[1] \notin {" ", "\n", "\t"}
                             /\ core[n] \notin {" ", "\n", "\t"}
                 /\ \E off \in 0..(150 - n) :
                      /\ \A k \in 1..n : c[off + k] = core[k]
                      /\ \A k \in 1..off : c[k] \in {" ", "\n", "\t"}
                      /\ \A k \in (off + n + 1)..150 :
                            c[k] \in {" ", "\n", "\t"}

C3_Witness ==
    /\ ppreview.t = "str"
    /\ Len(pbody) > 150
    /\ pbody[1] = "\n"
    /\ pbody[150] = " "
    /\ Len(ppreview.v) > 3

\* C4: a filter_emails call that returns, returns exactly the messages of the
\* server-side search (UNSEEN/SEEN by is_unread, FROM for a set sender, all
\* messages when neither is set) whose decoded subject contains the subject
\* argument case-insensitively (all of them when subject is unset), each with
\* its token as id, most recent first.
C4_FilterResult ==
    (op = "filter_emails" /\ outcome = "returned") =>
        LET hits == {n \in 1..Len(mailbox) :
                        /\ args.is_unread = "True" => ~mailbox[n].seen
                        /\ args.is_unread = "False" => mailbox[n].seen
                        /\ Truthy(args.sender) =>
                              Contains(Lower(HeaderText(mailbox[n].from)),
                                       Lower(args.sender.v))}
            kept == {n \in hits :
                        Truthy(args.subject) =>
                            Contains(Lower(_decode_header(mailbox[n].subject).v),
                                     Lower(args.subject.v))}
        IN  /\ result.t = "list"
            /\ Len(result.v) = Cardinality(kept)
            /\ \A i \in 1..Len(result.v) :
                  /\ IdNum(result.v[i].id) \in kept
                  /\ result.v[i].subject =
                        _decode_header(mailbox[IdNum(result.v[i].id)].subject).v
                  /\ i > 1 => IdNum(result.v[i].id) < IdNum(result.v[i - 1].id)

C4_Witness ==
    /\ op = "filter_emails" /\ outcome = "returned"
    /\ Truthy(args.subject) /\ Truthy(args.sender) /\ args.is_unread = "False"
    /\ Len(result.v) = 2
    /\ result.v[1].subject # result.v[2].subject

\* C5: over one snapshot get_unread_count returns the number of records that
\* filter_emails(is_unread=True) with no sender and no subject returns, and
\* when the UNSEEN search yields no tokens (an empty answer or no answer
\* line) both give 0: neither call fails unless a store step fails.
C5_UnreadCountEqualsFilter ==
    /\ (op = "get_unread_count" /\ pc = "done" /\ fault \notin StoreFaults) =>
          /\ outcome = "returned"
          /\ result.t = "int"
          /\ result.v = Cardinality(Unseen)
    /\ (/\ op = "filter_emails" /\ pc = "done" /\ fault \notin StoreFaults
        /\ args.is_unread = "True"
        /\ ~Truthy(args.sender) /\ ~Truthy(args.subject)) =>
          /\ outcome = "returned"
          /\ result.t = "list"
          /\ Len(result.v) = Cardinality(Unseen)

\* C6: in send_email the credential is sent only after a successful STARTTLS,
\* the message is handed over only after a successful login, a call that
\* returns has submitted exactly one message, addressed to `to` plus `cc`
\* when cc is present, and the success record exists only after that
\* submission.
C6_SendOrder ==
    op = "send_email" =>
        /\ \A i \in 1..Len(relayLog) :
              relayLog[i].cmd = "AUTH" =>
                  \E j \in 1..(i - 1) :
                      relayLog[j] = [cmd |-> "STARTTLS", ok |-> TRUE]
        /\ \A i \in 1..Len(relayLog) :
              relayLog[i].cmd = "MAIL" =>
                  \E j \in 1..(i - 1) :
                      relayLog[j] = [cmd |-> "AUTH", ok |-> TRUE]
        /\ (outcome = "returned" \/ result.t # "None") =>
              /\ Len(submitted) = 1
              /\ submitted[1].rcpt =
                    IF Truthy(args.cc) THEN <<args.to, args.cc.v>>
                    ELSE <<args.to>>
              /\ Cardinality({i \in 1..Len(relayLog) :
                                 relayLog[i].cmd = "MAIL"}) = 1

C6_Witness ==
    /\ op = "send_email" /\ outcome = "returned"
    /\ result.t = "dict"
    /\ Truthy(args.cc)
    /\ Len(submitted) = 1

\* C7: when a relay step of send_email fails the call raises the failure of
\* the send operation, returns no success record, and has made at most one
\* submission attempt.
C7_SendFailure ==
    op = "send_email" =>
        /\ Cardinality({i \in 1..Len(relayLog) : relayLog[i].cmd = "MAIL"}) <= 1
        /\ Len(submitted) <= 1
        /\ fault # "none" =>
              /\ outcome = "raised"
              /\ raised.prefix = "Failed to send email"
              /\ result.t = "None"
              /\ pc = "done"

C7_Witness ==
    /\ op = "send_email"
    /\ fault = "submission_refused"
    /\ outcome = "raised"
    /\ relayLog[Len(relayLog) - 1] = [cmd |-> "MAIL", ok |-> FALSE]

\* C8 as claimed: a rejected credential fails the call with an
\* AuthenticationError kind, an unreachable host or a missing folder with a
\* ConnectionError kind, and a missing folder stops the call at select.
C8_KindsAsClaimed ==
    op \in ReadOps =>
        /\ fault = "credential_rejected" => raised.type = "AuthenticationError"
        /\ fault = "unreachable" => raised.type = "ConnectionError"
        /\ (args.folder \notin Folders /\ pc = "done") =>
              raised.type = "ConnectionError"
        /\ args.folder \notin Folders => pc # "search"

\* C8 as amended: a rejected credential, an unreachable host and a missing
\* folder all fail the call with the same generic failure, which names the
\* operation and carries the cause; a missing folder is not noticed at select
\* (the call goes on to the search with no folder selected) and the call
\* then fails without returning a result.
C8_GenericFailure ==
    op \in ReadOps =>
        /\ fault \in {"credential_rejected", "unreachable"} =>
              /\ outcome = "raised"
              /\ raised.type = "Exception"
              /\ raised.cause = fault
              /\ result.t = "None"
        /\ (args.folder \notin Folders /\ pc = "search") => conn = "AUTH"
        /\ (args.folder \notin Folders /\ pc = "done") =>
              /\ outcome = "raised"
              /\ raised.type = "Exception"
              /\ raised.cause \in {"unreachable", "credential_rejected",
                                   "connection_lost", "illegal_state"}
              /\ result.t = "None"
        /\ outcome = "raised" =>
              raised.prefix =
                  CASE op = "read_emails" -> "Failed to read emails"
                    [] op = "filter_emails" -> "Failed to filter emails"
                    [] op = "get_unread_count" -> "Failed to get unread count"

C8_Witness ==
    /\ op = "filter_emails"
    /\ args.folder \notin Folders
    /\ outcome = "raised"
    /\ raised.cause = "illegal_state"

C10_DecodeNeverAborts ==
    (op \in {"read_emails", "filter_emails"} /\ pc = "done") =>
        /\ fault # "LookupError"
        /\ (op = "read_emails" /\ outcome = "returned") =>
              Len(result.v) = Len(message_list)

====
